---- MODULE Spec2Model ----
(***************************************************************************)
(* Model of pkg/cfn/builder/vpc_ipv4.go: the IPv4 VPC resource set of       *)
(* eksctl.  A build takes a cluster configuration and either declares the  *)
(* VPC resources in a CloudFormation resource graph (create path) or        *)
(* reconciles the given subnets with the route tables found in EC2 (import  *)
(* path).                                                                    *)
(*                                                                           *)
(* Go strings are sequences of tokens: a resource name such as              *)
(* "SubnetPrivate" + "USEAST1A" is <<"SubnetPrivate", "U", ...>>.  The       *)
(* literal prefixes of the code are one token each, the characters of zone  *)
(* and subnet names are one token each.  Upper-cased name characters never  *)
(* match the lower-case tail of a literal prefix, so two names are equal in *)
(* the model exactly when the Go strings are.                                *)
(***************************************************************************)
EXTENDS Integers, Sequences, FiniteSets, TLC

\* ------------------------------------------------------------------ bounds

\* Longest availability-zone list of a configuration.
MaxZones == 2
\* Longest chain of pages the route-table directory serves for one lookup.
MaxPages == 2
\* Builds of one configuration that the rebuild specification compares.
MaxBuilds == 2

\* ------------------------------------------------------------ input domains

\* Availability-zone names.
ZoneNames == { <<"z", "-", "a">>, <<"z", "-", "b">> }

\* Keys of the name-keyed subnet mappings: the zone names (what
\* vpc.SetSubnets generates) and a custom subnet name.
SubnetNames == ZoneNames \cup { <<"x">> }

\* The zone a subnet of the input domain lies in.
ZoneOf(name) == IF name = <<"z", "-", "b">> THEN <<"z", "-", "b">> ELSE <<"z", "-", "a">>

NATModes == { "HighlyAvailable", "Single", "Disable", "Bogus" }

ExistingVPC == <<"vpc-1">>

RouteTableIds == { <<"rtb-1">>, <<"rtb-2">> }

InternetCIDR == <<"0.0.0.0/0">>

\* ---------------------------------------------------------------- strings

\* strings.ToUpper on one character.
UpperChar(c) ==
    CASE c = "a" -> "A"
      [] c = "b" -> "B"
      [] c = "x" -> "X"
      [] c = "z" -> "Z"
      [] OTHER -> c

RECURSIVE SplitJoinUpper(_)
\* strings.ToUpper(strings.Join(strings.Split(s, "-"), "")).
SplitJoinUpper(s) ==
    IF s = <<>> THEN <<>>
    ELSE IF Head(s) = "-" THEN SplitJoinUpper(Tail(s))
    ELSE <<UpperChar(Head(s))>> \o SplitJoinUpper(Tail(s))

\* formatAZ(az), used by haNAT.
formatAZ(az) == SplitJoinUpper(az)

\* ----------------------------------------------------------- gfnt.Value

NilValue == [kind |-> "Nil", v |-> <<>>, attr |-> ""]
NewString(s) == [kind |-> "String", v |-> s, attr |-> ""]
MakeRef(name) == [kind |-> "Ref", v |-> name, attr |-> ""]
MakeFnGetAttString(name, attr) == [kind |-> "GetAtt", v |-> name, attr |-> attr]

\* ------------------------------------------------------------ resourceSet

\* rs.newResource(name, resource): the template's Resources is a map keyed by
\* the logical name; the result is a reference to the name.
newResource(rs, name, resource) == (name :> resource) @@ rs

NoResources == [n \in {} |-> NilValue]

\* rs.defineOutput / defineJoinedOutput / defineOutputWithoutCollector.
defineOutput(outs, name, value) == (name :> value) @@ outs

NoOutputs == [n \in {} |-> NilValue]

\* ------------------------------------------------------- api.ClusterConfig

\* api.AZSubnetSpec of a subnet of the input domain.
AZSubnetSpec(topology, name, imported) ==
    [ AZ |-> ZoneOf(name),
      ID |-> IF imported THEN <<"subnet-", topology>> \o name ELSE <<>>,
      CIDR |-> <<"cidr-", topology>> \o name ]

\* map[string]api.AZSubnetSpec; isNil tells a nil map from an empty one.
SubnetMappings(topology, imported) ==
    { [isNil |-> TRUE, m |-> [n \in {} |-> AZSubnetSpec(topology, <<>>, imported)]] }
    \cup { [isNil |-> FALSE, m |-> [n \in keys |-> AZSubnetSpec(topology, n, imported)]]
           : keys \in SUBSET SubnetNames }

SeqsUpTo(S, n) == UNION { [1..k -> S] : k \in 0..n }

ZoneLists == SeqsUpTo(ZoneNames, MaxZones)

ClusterConfigs ==
    UNION { [ ID : {id},
              CIDR : { <<"192.168.0.0/16">> },
              Private : SubnetMappings("Private", id # <<>>),
              Public : SubnetMappings("Public", id # <<>>),
              NAT : NATModes,
              PrivateCluster : BOOLEAN,
              AutoAllocateIPv6 : BOOLEAN,
              AvailabilityZones : ZoneLists ] : id \in { <<>>, ExistingVPC } }

\* Enumeration orders of a Go map: every order of its keys.
RangeOrders(m) ==
    { o \in [1..Cardinality(DOMAIN m) -> DOMAIN m] :
        \A i, j \in DOMAIN o : i # j => o[i] # o[j] }

\* ------------------------------------------------------ SubnetResource

SubnetResource(subnet, routeTable, az) ==
    [Subnet |-> subnet, RouteTable |-> routeTable, AvailabilityZone |-> az]

\* "Subnet" + string(topology), "RouteTableAssociation" + string(topology).
SubnetPrefix(topology) == IF topology = "Private" THEN "SubnetPrivate" ELSE "SubnetPublic"
AssociationPrefix(topology) ==
    IF topology = "Private" THEN "RouteTableAssociationPrivate"
    ELSE "RouteTableAssociationPublic"

\* --------------------------------------------------- NewIPv4VPCResourceSet

VPCResource(cfg) ==
    [ Type |-> "VPC", CidrBlock |-> NewString(cfg.CIDR),
      EnableDnsSupport |-> TRUE, EnableDnsHostnames |-> TRUE ]

\* A constructor that declares the VPC whether or not an identifier is given.
NewIPv4VPCResourceSet_AlwaysDeclares(cfg) ==
    [ rs |-> newResource(NoResources, <<"VPC">>, VPCResource(cfg)),
      vpcID |-> IF cfg.ID = <<>> THEN MakeRef(<<"VPC">>) ELSE NewString(cfg.ID) ]

\* The resource set and the VPC reference the constructor leaves.
NewIPv4VPCResourceSet(cfg) ==
    IF cfg.ID = <<>>
    THEN [ rs |-> newResource(NoResources, <<"VPC">>, VPCResource(cfg)),
           vpcID |-> MakeRef(<<"VPC">>) ]
    ELSE [ rs |-> NoResources, vpcID |-> NewString(cfg.ID) ]

\* -------------------------------------------------------------- addSubnets

\* The index the first subnet of a topology selects.
FirstSubnetIndexForIPv6(cfg, topology) ==
    IF cfg.AutoAllocateIPv6 /\ topology = "Private"
    THEN Len(cfg.AvailabilityZones)
    ELSE 0

\* The gfnec2.Subnet declared for one entry of the mapping.
SubnetDecl(vpc, topology, spec) ==
    [ Type |-> "Subnet",
      AvailabilityZone |-> NewString(spec.AZ),
      CidrBlock |-> NewString(spec.CIDR),
      VpcId |-> vpc,
      Tag |-> IF topology = "Private" THEN "kubernetes.io/role/internal-elb"
              ELSE "kubernetes.io/role/elb",
      MapPublicIpOnLaunch |-> (topology = "Public") ]

\* One iteration of the loop of addSubnets over the entry `name`.
\* st = [rs, refRT, index, out].
AddSubnet(st, cfg, vpc, topology, subnets, name) ==
    LET nameAlias == SplitJoinUpper(name)
        refRT == IF topology = "Private"
                 THEN MakeRef(<<"PrivateRouteTable">> \o nameAlias)
                 ELSE st.refRT
        subnetName == <<SubnetPrefix(topology)>> \o nameAlias
        refSubnet == MakeRef(subnetName)
        rs1 == newResource(st.rs, subnetName, SubnetDecl(vpc, topology, subnets[name]))
        rs2 == newResource(rs1, <<AssociationPrefix(topology)>> \o nameAlias,
                   [ Type |-> "SubnetRouteTableAssociation",
                     SubnetId |-> refSubnet, RouteTableId |-> refRT ])
        rs3 == IF cfg.AutoAllocateIPv6
               THEN newResource(rs2, <<topology>> \o nameAlias \o <<"CIDRv6">>,
                        [ Type |-> "SubnetCidrBlock",
                          SubnetId |-> refSubnet,
                          Index |-> st.index,
                          Slices |-> (Len(cfg.AvailabilityZones) * 2) + 2 ])
               ELSE rs2
    IN  [ rs |-> rs3,
          refRT |-> refRT,
          index |-> IF cfg.AutoAllocateIPv6 THEN st.index + 1 ELSE st.index,
          out |-> Append(st.out, SubnetResource(refSubnet, refRT, subnets[name].AZ)) ]

RECURSIVE AddSubnetsLoop(_, _, _, _, _, _, _)
AddSubnetsLoop(st, cfg, vpc, topology, subnets, order, i) ==
    IF i > Len(order) THEN st
    ELSE AddSubnetsLoop(AddSubnet(st, cfg, vpc, topology, subnets, order[i]),
                        cfg, vpc, topology, subnets, order, i + 1)

\* v.addSubnets(refRT, topology, subnets), the map enumerated in `order`.
\* The result is [rs, out]: the graph and the SubnetResources returned.
addSubnets(rs, cfg, vpc, refRT, topology, subnets, order) ==
    LET st == AddSubnetsLoop(
                  [ rs |-> rs, refRT |-> refRT,
                    index |-> FirstSubnetIndexForIPv6(cfg, topology), out |-> <<>> ],
                  cfg, vpc, topology, subnets, order, 1)
    IN  [rs |-> st.rs, out |-> st.out]

\* ---------------------------------------------------------- NAT strategies

EIPDecl == [Type |-> "EIP", Domain |-> NewString(<<"vpc">>)]

NatGatewayDecl(eipName, subnetName) ==
    [ Type |-> "NatGateway",
      AllocationId |-> MakeFnGetAttString(eipName, "AllocationId"),
      SubnetId |-> MakeRef(subnetName) ]

RouteTableDecl(vpc) == [Type |-> "RouteTable", VpcId |-> vpc]

RouteDecl(refRT, refIG, refNG, dependsOn) ==
    [ Type |-> "Route", RouteTableId |-> refRT,
      DestinationCidrBlock |-> NewString(InternetCIDR),
      GatewayId |-> refIG, NatGatewayId |-> refNG, DependsOn |-> dependsOn ]

AssociationDecl(subnetName, refRT) ==
    [ Type |-> "SubnetRouteTableAssociation",
      SubnetId |-> MakeRef(subnetName), RouteTableId |-> refRT ]

\* A zone of haNAT whose route goes to a gateway named without the zone.
haNATZone_SharedGatewayName(rs, vpc, az) ==
    LET alias == formatAZ(az)
        rs1 == newResource(rs, <<"NATIP">> \o alias, EIPDecl)
        rs2 == newResource(rs1, <<"NATGateway">> \o alias,
                   NatGatewayDecl(<<"NATIP">> \o alias, <<"SubnetPublic">> \o alias))
        rs3 == newResource(rs2, <<"PrivateRouteTable">> \o alias, RouteTableDecl(vpc))
        refRT == MakeRef(<<"PrivateRouteTable">> \o alias)
        rs4 == newResource(rs3, <<"NATPrivateSubnetRoute">> \o alias,
                   RouteDecl(refRT, NilValue, MakeRef(<<"NATGateway">>), {}))
    IN  newResource(rs4, <<"RouteTableAssociationPrivate">> \o alias,
            AssociationDecl(<<"SubnetPrivate">> \o alias, refRT))

\* The body of the loop of haNAT for one zone.
haNATZone(rs, vpc, az) ==
    LET alias == formatAZ(az)
        rs1 == newResource(rs, <<"NATIP">> \o alias, EIPDecl)
        rs2 == newResource(rs1, <<"NATGateway">> \o alias,
                   NatGatewayDecl(<<"NATIP">> \o alias, <<"SubnetPublic">> \o alias))
        refNG == MakeRef(<<"NATGateway">> \o alias)
        rs3 == newResource(rs2, <<"PrivateRouteTable">> \o alias, RouteTableDecl(vpc))
        refRT == MakeRef(<<"PrivateRouteTable">> \o alias)
        rs4 == newResource(rs3, <<"NATPrivateSubnetRoute">> \o alias,
                   RouteDecl(refRT, NilValue, refNG, {}))
    IN  newResource(rs4, <<"RouteTableAssociationPrivate">> \o alias,
            AssociationDecl(<<"SubnetPrivate">> \o alias, refRT))

RECURSIVE haNATLoop(_, _, _, _)
haNATLoop(rs, vpc, zones, i) ==
    IF i > Len(zones) THEN rs
    ELSE haNATLoop(haNATZone(rs, vpc, zones[i]), vpc, zones, i + 1)

\* v.haNAT()
haNAT(rs, vpc, zones) == haNATLoop(rs, vpc, zones, 1)

\* The body of the loop of singleNAT for one zone.
singleNATZone(rs, vpc, az, refNG) ==
    LET alias == SplitJoinUpper(az)
        rs1 == newResource(rs, <<"PrivateRouteTable">> \o alias, RouteTableDecl(vpc))
        refRT == MakeRef(<<"PrivateRouteTable">> \o alias)
        rs2 == newResource(rs1, <<"NATPrivateSubnetRoute">> \o alias,
                   RouteDecl(refRT, NilValue, refNG, {}))
    IN  newResource(rs2, <<"RouteTableAssociationPrivate">> \o alias,
            AssociationDecl(<<"SubnetPrivate">> \o alias, refRT))

RECURSIVE singleNATLoop(_, _, _, _, _)
singleNATLoop(rs, vpc, zones, refNG, i) ==
    IF i > Len(zones) THEN rs
    ELSE singleNATLoop(singleNATZone(rs, vpc, zones[i], refNG), vpc, zones, refNG, i + 1)

\* The shared NAT gateway placed in the last zone of the list.
singleNATFirstZone_Last(zones) == zones[Len(zones)]

\* The zone whose public subnet hosts the shared NAT gateway: sortedAZs[0].
singleNATFirstZone(zones) == zones[1]

\* v.singleNAT(); sortedAZs[0] needs a zone (Len(zones) > 0).
singleNAT(rs, vpc, zones) ==
    LET firstUpperAZ == SplitJoinUpper(singleNATFirstZone(zones))
        rs1 == newResource(rs, <<"NATIP">>, EIPDecl)
        rs2 == newResource(rs1, <<"NATGateway">>,
                   NatGatewayDecl(<<"NATIP">>, <<"SubnetPublic">> \o firstUpperAZ))
    IN  singleNATLoop(rs2, vpc, zones, MakeRef(<<"NATGateway">>), 1)

\* The body of the loop of noNAT for one zone.
noNATZone(rs, vpc, az) ==
    LET alias == SplitJoinUpper(az)
        rs1 == newResource(rs, <<"PrivateRouteTable">> \o alias, RouteTableDecl(vpc))
    IN  newResource(rs1, <<"RouteTableAssociationPrivate">> \o alias,
            AssociationDecl(<<"SubnetPrivate">> \o alias,
                            MakeRef(<<"PrivateRouteTable">> \o alias)))

RECURSIVE noNATLoop(_, _, _, _)
noNATLoop(rs, vpc, zones, i) ==
    IF i > Len(zones) THEN rs
    ELSE noNATLoop(noNATZone(rs, vpc, zones[i]), vpc, zones, i + 1)

\* v.noNAT()
noNAT(rs, vpc, zones) == noNATLoop(rs, vpc, zones, 1)

\* A switch over the NAT mode without its default case.
addNATGatewaysOutcome_NoDefault(cfg) ==
    IF cfg.NAT = "Single" /\ Len(cfg.AvailabilityZones) = 0 THEN "panic" ELSE "ok"

\* The outcome of v.addNATGateways(): "ok", "error" (no valid mode) or "panic"
\* (singleNAT indexes an empty zone list).
addNATGatewaysOutcome(cfg) ==
    CASE cfg.NAT = "HighlyAvailable" -> "ok"
      [] cfg.NAT = "Single" -> IF Len(cfg.AvailabilityZones) = 0 THEN "panic" ELSE "ok"
      [] cfg.NAT = "Disable" -> "ok"
      [] OTHER -> "error"

\* The graph v.addNATGateways() leaves.
addNATGateways(rs, vpc, cfg) ==
    CASE cfg.NAT = "HighlyAvailable" -> haNAT(rs, vpc, cfg.AvailabilityZones)
      [] cfg.NAT = "Single" /\ Len(cfg.AvailabilityZones) > 0 ->
             singleNAT(rs, vpc, cfg.AvailabilityZones)
      [] cfg.NAT = "Disable" -> noNAT(rs, vpc, cfg.AvailabilityZones)
      [] OTHER -> rs

\* ------------------------------------------------------------- addOutputs

SubnetRefs(subnetResources) ==
    [i \in 1..Len(subnetResources) |-> subnetResources[i].Subnet]

\* v.addOutputs(): the outputs registered on the resource set, by name.
\* Every configuration carries a NAT mode (clusterConfig.VPC.NAT is not nil).
addOutputs(outs, cfg, vpc, details) ==
    LET o1 == defineOutput(outs, "VPC", [value |-> vpc, joined |-> <<>>])
        o2 == defineOutput(o1, "FeatureNATMode",
                  [value |-> NewString(<<cfg.NAT>>), joined |-> <<>>])
        o3 == IF Len(details.Private) > 0
              THEN defineOutput(o2, "SubnetsPrivate",
                       [value |-> NilValue, joined |-> SubnetRefs(details.Private)])
              ELSE o2
        o4 == IF Len(details.Public) > 0
              THEN defineOutput(o3, "SubnetsPublic",
                       [value |-> NilValue, joined |-> SubnetRefs(details.Public)])
              ELSE o3
    IN  IF cfg.PrivateCluster
        THEN defineOutput(o4, "ClusterFullyPrivate",
                 [value |-> NewString(<<"true">>), joined |-> <<>>])
        ELSE o4

\* ------------------------------------------------- the route-table directory

\* Associations a route table of the directory may carry: one of the private
\* subnets, or the main association of its VPC (which names no subnet).
Associations ==
    { [SubnetId |-> AZSubnetSpec("Private", n, TRUE).ID, Main |-> FALSE] : n \in SubnetNames }
    \cup { [SubnetId |-> <<>>, Main |-> TRUE] }

\* ec2.RouteTable records: an identifier and at most one association.
RouteTables ==
    { [RouteTableId |-> r, Associations |-> as] :
        r \in RouteTableIds, as \in SeqsUpTo(Associations, 1) }

\* ec2.DescribeRouteTablesOutput, or an error of the call.  NextToken 0 is nil;
\* the token of page i is i, and the directory answers token i with page i + 1.
PageResponses(token) ==
    { [err |-> FALSE, RouteTables |-> rts, NextToken |-> token] :
        rts \in SeqsUpTo(RouteTables, 1) }

ErrorResponse == [err |-> TRUE, RouteTables |-> <<>>, NextToken |-> 0]

RECURSIVE TokenPages(_)
\* The first k pages of a longer chain: page i carries the token i.
TokenPages(k) ==
    IF k = 0 THEN { <<>> }
    ELSE { Append(p, r) : p \in TokenPages(k - 1), r \in PageResponses(k) }

\* The chains of at most n pages a directory serves: every page but the last
\* carries a token, the last carries none or is an error.
Directories(n) ==
    UNION { { Append(p, last) : p \in TokenPages(k - 1),
                                last \in PageResponses(0) \cup {ErrorResponse} }
            : k \in 1..n }

\* ec2API.DescribeRouteTables with the given NextToken.
DescribeRouteTablesOutput(dir, nextToken) == dir[nextToken + 1]

\* ---------------------------------------------------------- importResources

RECURSIVE FlattenAssociations(_)
\* The (route table, association) pairs in the order lines 343-344 visit them.
FlattenAssociations(routeTables) ==
    IF routeTables = <<>> THEN <<>>
    ELSE LET rt == Head(routeTables)
         IN  [i \in 1..Len(rt.Associations) |->
                 [rt |-> rt.RouteTableId, rta |-> rt.Associations[i]]]
             \o FlattenAssociations(Tail(routeTables))

NoRoutes == [n \in {} |-> <<>>]

RECURSIVE BuildSubnetRoutes(_, _, _)
BuildSubnetRoutes(pairs, i, routes) ==
    IF i > Len(pairs) THEN [err |-> "", routes |-> routes]
    ELSE IF pairs[i].rta.Main
         THEN [err |-> "subnets must be associated with a non-main route table",
               routes |-> NoRoutes]
         ELSE BuildSubnetRoutes(pairs, i + 1,
                  (pairs[i].rta.SubnetId :> pairs[i].rt) @@ routes)

RECURSIVE BuildSubnetRoutes_IgnoringMain(_, _, _)
BuildSubnetRoutes_IgnoringMain(pairs, i, routes) ==
    IF i > Len(pairs) THEN [err |-> "", routes |-> routes]
    ELSE BuildSubnetRoutes_IgnoringMain(pairs, i + 1,
             IF pairs[i].rta.Main THEN routes
             ELSE (pairs[i].rta.SubnetId :> pairs[i].rt) @@ routes)

\* The map from subnet to route table without the check of the main flag.
subnetRoutesOf_IgnoringMain(routeTables) ==
    BuildSubnetRoutes_IgnoringMain(FlattenAssociations(routeTables), 1, NoRoutes)

\* Lines 342-351 of importRouteTables: the map from subnet to route table.
subnetRoutesOf(routeTables) ==
    BuildSubnetRoutes(FlattenAssociations(routeTables), 1, NoRoutes)

RECURSIVE MakeSubnetResourcesLoop(_, _, _, _, _, _)
MakeSubnetResourcesLoop(subnets, useRoutes, routes, order, i, out) ==
    IF i > Len(order) THEN [err |-> "", out |-> out]
    ELSE LET network == subnets[order[i]]
         IN  IF useRoutes /\ network.ID \notin DOMAIN routes
             THEN [err |-> "failed to find an explicit route table", out |-> <<>>]
             ELSE MakeSubnetResourcesLoop(subnets, useRoutes, routes, order, i + 1,
                      Append(out,
                          SubnetResource(NewString(network.ID),
                              IF useRoutes THEN NewString(routes[network.ID]) ELSE NilValue,
                              network.AZ)))

\* makeSubnetResources(subnets, subnetRoutes); useRoutes is subnetRoutes != nil.
makeSubnetResources(subnets, useRoutes, routes, order) ==
    MakeSubnetResourcesLoop(subnets, useRoutes, routes, order, 1, <<>>)

NoDetails == [Private |-> <<>>, Public |-> <<>>]

\* Lines 269-284 of importResources, once subnetRoutes is known.
\* The result is [err, details].
importSubnets(cfg, details, useRoutes, routes, privOrder, pubOrder) ==
    LET priv == makeSubnetResources(cfg.Private.m, useRoutes, routes, privOrder)
        d1 == IF cfg.Private.isNil THEN details
              ELSE [details EXCEPT !.Private = priv.out]
        pub == makeSubnetResources(cfg.Public.m, FALSE, NoRoutes, pubOrder)
    IN  IF ~cfg.Private.isNil /\ priv.err # ""
        THEN [err |-> priv.err, details |-> details]
        ELSE IF cfg.Public.isNil THEN [err |-> "", details |-> d1]
        ELSE [err |-> "", details |-> [d1 EXCEPT !.Public = pub.out]]

\* ------------------------------------------------------------- addResources

\* Lines 87-92: the secondary block of the VPC.
addAutoAllocatedCIDRv6(rs, cfg, vpc) ==
    IF cfg.AutoAllocateIPv6
    THEN newResource(rs, <<"AutoAllocatedCIDRv6">>,
             [Type |-> "VPCCidrBlock", VpcId |-> vpc, AmazonProvidedIpv6CidrBlock |-> TRUE])
    ELSE rs

\* A fully-private build that picks the NAT strategy by the NAT mode.
addResourcesFullyPrivate_ByNATMode(rs, cfg, vpc, details, privOrder) ==
    LET rs1 == addNATGateways(addAutoAllocatedCIDRv6(rs, cfg, vpc), vpc, cfg)
        priv == addSubnets(rs1, cfg, vpc, NilValue, "Private", cfg.Private.m, privOrder)
    IN  [rs |-> priv.rs, details |-> [details EXCEPT !.Private = priv.out]]

\* Lines 94-98: the fully-private build.  The result is [rs, details].
addResourcesFullyPrivate(rs, cfg, vpc, details, privOrder) ==
    LET rs1 == noNAT(addAutoAllocatedCIDRv6(rs, cfg, vpc), vpc, cfg.AvailabilityZones)
        priv == addSubnets(rs1, cfg, vpc, NilValue, "Private", cfg.Private.m, privOrder)
    IN  [rs |-> priv.rs, details |-> [details EXCEPT !.Private = priv.out]]

\* Lines 100-118: the gateway, the public route table and the public subnets.
\* The result is [rs, details].
addPublicSide(rs, cfg, vpc, details, pubOrder) ==
    LET rs0 == addAutoAllocatedCIDRv6(rs, cfg, vpc)
        rs1 == newResource(rs0, <<"InternetGateway">>, [Type |-> "InternetGateway"])
        refIG == MakeRef(<<"InternetGateway">>)
        rs2 == newResource(rs1, <<"VPCGatewayAttachment">>,
                   [Type |-> "VPCGatewayAttachment", InternetGatewayId |-> refIG, VpcId |-> vpc])
        rs3 == newResource(rs2, <<"PublicRouteTable">>, RouteTableDecl(vpc))
        refPublicRT == MakeRef(<<"PublicRouteTable">>)
        rs4 == newResource(rs3, <<"PublicSubnetRoute">>,
                   RouteDecl(refPublicRT, refIG, NilValue, { <<"VPCGatewayAttachment">> }))
        pub == addSubnets(rs4, cfg, vpc, refPublicRT, "Public", cfg.Public.m, pubOrder)
    IN  [rs |-> pub.rs, details |-> [details EXCEPT !.Public = pub.out]]

\* Lines 120-125: the NAT strategy, then the private subnets.
\* The result is [rs, details], for a valid NAT mode.
addPrivateSide(rs, cfg, vpc, details, privOrder) ==
    LET rs1 == addNATGateways(rs, vpc, cfg)
        priv == addSubnets(rs1, cfg, vpc, NilValue, "Private", cfg.Private.m, privOrder)
    IN  [rs |-> priv.rs, details |-> [details EXCEPT !.Private = priv.out]]

\* ------------------------------------------------------------------- state

VARIABLES
    clusterConfig,  \* the configuration the resource set is built from
    directory,      \* the pages the EC2 route-table directory serves
    pc,             \* "ready", "describe", "done", "panic"
    resources,      \* rs: the declared resources, by logical name
    outputs,        \* rs: the registered outputs, by name
    vpcID,          \* v.vpcID
    subnetDetails,  \* v.subnetDetails
    result,         \* what CreateTemplate returned
    nextToken,      \* importRouteTables: the token of the next call
    routeTables,    \* importRouteTables: the records gathered so far
    calls,          \* the NextToken of every DescribeRouteTables call issued
    received,       \* the responses of the directory, in order
    builds,         \* builds of clusterConfig completed before this one
    earlier         \* the secondary-block indices of the previous build

vars == << clusterConfig, directory, pc, resources, outputs, vpcID, subnetDetails,
           result, nextToken, routeTables, calls, received, builds, earlier >>

lookupVars == << nextToken, routeTables, calls, received >>

NoResult == [returned |-> FALSE, vpcID |-> NilValue, subnetDetails |-> NoDetails, err |-> ""]

\* return nil, nil, err
Failure(err) == [returned |-> TRUE, vpcID |-> NilValue, subnetDetails |-> NoDetails, err |-> err]

\* return v.vpcID, v.subnetDetails, nil
Success(vpc, details) ==
    [returned |-> TRUE, vpcID |-> vpc, subnetDetails |-> details, err |-> ""]

\* The secondary-block index of every subnet that selects one, by resource name.
CIDRv6Indices(rs) ==
    [n \in {x \in DOMAIN rs : rs[x].Type = "SubnetCidrBlock"} |-> rs[n].Index]

\* importResources is entered with a lookup of the route tables.
NeedsLookup(cfg) == cfg.ID # <<>> /\ ~cfg.Private.isNil /\ cfg.PrivateCluster

\* State after NewIPv4VPCResourceSet(rs, clusterConfig, ec2API) on an empty
\* resource set, for a configuration and a directory.
Start(cfg, dir) ==
    /\ clusterConfig = cfg
    /\ directory = dir
    /\ pc = "ready"
    /\ resources = NewIPv4VPCResourceSet(cfg).rs
    /\ outputs = NoOutputs
    /\ vpcID = NewIPv4VPCResourceSet(cfg).vpcID
    /\ subnetDetails = NoDetails
    /\ result = NoResult
    /\ nextToken = 0
    /\ routeTables = <<>>
    /\ calls = <<>>
    /\ received = <<>>
    /\ builds = 0
    /\ earlier = CIDRv6Indices(NoResources)

\* Every configuration; a directory of one page where one is consulted.
Init ==
    \E cfg \in ClusterConfigs :
        \E dir \in (IF NeedsLookup(cfg) THEN Directories(1) ELSE { <<>> }) :
            Start(cfg, dir)

\* CreateTemplate, fully-private create path.
CreateFullyPrivate ==
    /\ pc = "ready"
    /\ clusterConfig.ID = <<>>
    /\ clusterConfig.PrivateCluster
    /\ \E privOrder \in RangeOrders(clusterConfig.Private.m) :
         \E built \in { addResourcesFullyPrivate(resources, clusterConfig, vpcID,
                                                 subnetDetails, privOrder) } :
             /\ resources' = built.rs
             /\ subnetDetails' = built.details
             /\ outputs' = addOutputs(outputs, clusterConfig, vpcID, built.details)
             /\ result' = Success(vpcID, built.details)
    /\ pc' = "done"
    /\ UNCHANGED << clusterConfig, directory, vpcID, lookupVars, builds, earlier >>

\* CreateTemplate, create path with an internet gateway.
CreateGatewayed ==
    /\ pc = "ready"
    /\ clusterConfig.ID = <<>>
    /\ ~clusterConfig.PrivateCluster
    /\ \E pubOrder \in RangeOrders(clusterConfig.Public.m) :
         \E public \in { addPublicSide(resources, clusterConfig, vpcID,
                                       subnetDetails, pubOrder) } :
             CASE addNATGatewaysOutcome(clusterConfig) = "error" ->
                    /\ resources' = public.rs
                    /\ subnetDetails' = public.details
                    /\ result' = Failure("not a valid NAT gateway mode")
                    /\ pc' = "done"
                    /\ UNCHANGED outputs
               [] addNATGatewaysOutcome(clusterConfig) = "panic" ->
                    /\ resources' = public.rs
                    /\ subnetDetails' = public.details
                    /\ pc' = "panic"
                    /\ UNCHANGED << outputs, result >>
               [] OTHER ->
                    \E privOrder \in RangeOrders(clusterConfig.Private.m) :
                        \E built \in { addPrivateSide(public.rs, clusterConfig, vpcID,
                                                      public.details, privOrder) } :
                            /\ resources' = built.rs
                            /\ subnetDetails' = built.details
                            /\ outputs' = addOutputs(outputs, clusterConfig, vpcID,
                                                     built.details)
                            /\ result' = Success(vpcID, built.details)
                            /\ pc' = "done"
    /\ UNCHANGED << clusterConfig, directory, vpcID, lookupVars, builds, earlier >>

\* The rest of CreateTemplate on the import path once subnetRoutes is known
\* (or is nil): makeSubnetResources for both roles, then the outputs.
FinishImport(useRoutes, routes) ==
    \E privOrder \in RangeOrders(clusterConfig.Private.m),
       pubOrder \in RangeOrders(clusterConfig.Public.m) :
        \E imported \in { importSubnets(clusterConfig, subnetDetails, useRoutes, routes,
                                        privOrder, pubOrder) } :
            IF imported.err # ""
            THEN /\ result' = Failure(imported.err)
                 /\ UNCHANGED << subnetDetails, outputs >>
            ELSE /\ subnetDetails' = imported.details
                 /\ outputs' = addOutputs(outputs, clusterConfig, vpcID, imported.details)
                 /\ result' = Success(vpcID, imported.details)

\* CreateTemplate, import path without a route-table lookup.
ImportWithoutLookup ==
    /\ pc = "ready"
    /\ clusterConfig.ID # <<>>
    /\ ~NeedsLookup(clusterConfig)
    /\ FinishImport(FALSE, NoRoutes)
    /\ pc' = "done"
    /\ UNCHANGED << clusterConfig, directory, resources, vpcID, lookupVars, builds, earlier >>

\* CreateTemplate, import path: importRouteTables up to its first call.
ImportLookupStart ==
    /\ pc = "ready"
    /\ NeedsLookup(clusterConfig)
    /\ pc' = "describe"
    /\ nextToken' = 0
    /\ routeTables' = <<>>
    /\ UNCHANGED << clusterConfig, directory, resources, outputs, vpcID, subnetDetails,
                    result, calls, received, builds, earlier >>

\* The token the loop of importRouteTables keeps for its next call.
TokenAfter(output) == output.NextToken

\* The records of the last page only: assignment in place of append.
RouteTablesAfter_LastPage(gathered, output) == output.RouteTables

\* The records importRouteTables holds after a page.
RouteTablesAfter(gathered, output) == gathered \o output.RouteTables

\* One call of ec2API.DescribeRouteTables and what follows its answer: the
\* error return, the next turn of the loop, or the rest of the build.
DescribeRouteTables ==
    /\ pc = "describe"
    /\ Len(calls) < MaxPages + 1
    /\ \E output \in { DescribeRouteTablesOutput(directory, nextToken) } :
         /\ calls' = Append(calls, nextToken)
         /\ received' = Append(received, output)
         /\ IF output.err
            THEN /\ result' = Failure("error describing route tables")
                 /\ pc' = "done"
                 /\ UNCHANGED << nextToken, routeTables, subnetDetails, outputs >>
            ELSE /\ routeTables' = RouteTablesAfter(routeTables, output)
                 /\ nextToken' = TokenAfter(output)
                 /\ IF TokenAfter(output) # 0
                    THEN /\ pc' = "describe"
                         /\ UNCHANGED << result, subnetDetails, outputs >>
                    ELSE /\ pc' = "done"
                         /\ \E routes \in { subnetRoutesOf(RouteTablesAfter(routeTables, output)) } :
                              IF routes.err # ""
                              THEN /\ result' = Failure(routes.err)
                                   /\ UNCHANGED << subnetDetails, outputs >>
                              ELSE FinishImport(TRUE, routes.routes)
    /\ UNCHANGED << clusterConfig, directory, resources, vpcID, builds, earlier >>

Next ==
    \/ CreateFullyPrivate
    \/ CreateGatewayed
    \/ ImportWithoutLookup
    \/ ImportLookupStart
    \/ DescribeRouteTables

Spec == Init /\ [][Next]_vars

\* --------------------------------------------- the lookup, page by page

\* Fully-private imports with private subnets and at most one public subnet,
\* against every directory of at most MaxPages pages.
LookupInit ==
    \E cfg \in { c \in ClusterConfigs :
                    /\ NeedsLookup(c)
                    /\ Cardinality(DOMAIN c.Public.m) <= 1
                    /\ c.NAT = "Disable"
                    /\ ~c.AutoAllocateIPv6
                    /\ c.AvailabilityZones = <<>> } :
        \E dir \in Directories(MaxPages) : Start(cfg, dir)

LookupNext ==
    \/ ImportLookupStart
    \/ DescribeRouteTables

\* CreateTemplate runs to its return: the lookup is one synchronous loop.
LookupSpec == LookupInit /\ [][LookupNext]_vars /\ WF_vars(LookupNext)

\* ------------------------------------------------- a build and its rebuild

\* A later build of the same configuration: a new resource set on an empty
\* template; the indices of the build just finished are kept for comparison.
Rebuild ==
    /\ pc = "done"
    /\ result.err = ""
    /\ builds + 1 < MaxBuilds
    /\ builds' = builds + 1
    /\ earlier' = CIDRv6Indices(resources)
    /\ pc' = "ready"
    /\ resources' = NewIPv4VPCResourceSet(clusterConfig).rs
    /\ vpcID' = NewIPv4VPCResourceSet(clusterConfig).vpcID
    /\ outputs' = NoOutputs
    /\ subnetDetails' = NoDetails
    /\ result' = NoResult
    /\ UNCHANGED << clusterConfig, directory, lookupVars >>

\* Create-path configurations with secondary-block auto-allocation.
RebuildInit ==
    \E cfg \in { c \in ClusterConfigs : c.ID = <<>> /\ c.AutoAllocateIPv6 } :
        Start(cfg, <<>>)

RebuildNext ==
    \/ CreateFullyPrivate
    \/ CreateGatewayed
    \/ Rebuild

RebuildSpec == RebuildInit /\ [][RebuildNext]_vars

\* ================================================================ properties

Zones == clusterConfig.AvailabilityZones
ZoneSet == { Zones[i] : i \in DOMAIN Zones }
PrivateSubnets == clusterConfig.Private.m
PublicSubnets == clusterConfig.Public.m

OfType(t) == { n \in DOMAIN resources : resources[n].Type = t }
Declared(n, t) == n \in DOMAIN resources /\ resources[n].Type = t

\* Logical names by the template's convention.
Named(prefix, name) == <<prefix>> \o SplitJoinUpper(name)

OnCreatePath == clusterConfig.ID = <<>>
Gatewayed == OnCreatePath /\ ~clusterConfig.PrivateCluster
Returned == pc = "done" /\ result.returned
Succeeded == Returned /\ result.err = ""

DeclaredPublicSubnets ==
    { n \in OfType("Subnet") : Head(n) = "SubnetPublic" \/ resources[n].MapPublicIpOnLaunch }
DeclaredPrivateSubnets ==
    { n \in OfType("Subnet") : Head(n) = "SubnetPrivate" \/ ~resources[n].MapPublicIpOnLaunch }
PrivateRouteTables == { n \in OfType("RouteTable") : n # <<"PublicRouteTable">> }

\* The routes to 0.0.0.0/0 of the route table named t.
DefaultRoutes(t) ==
    { r \in OfType("Route") :
        /\ resources[r].RouteTableId = MakeRef(t)
        /\ resources[r].DestinationCidrBlock = NewString(InternetCIDR) }

\* C1: on the create path with the fully-private flag set, whatever the NAT
\* mode, the zones and the subnet mappings, the graph holds no internet
\* gateway, no gateway attachment, no NAT gateway, no elastic address and no
\* public subnet.
C1_FullyPrivateNoGateway ==
    (OnCreatePath /\ clusterConfig.PrivateCluster) =>
        /\ OfType("InternetGateway") = {}
        /\ OfType("VPCGatewayAttachment") = {}
        /\ OfType("NatGateway") = {}
        /\ OfType("EIP") = {}
        /\ DeclaredPublicSubnets = {}

C1_Witness ==
    /\ Succeeded /\ OnCreatePath /\ clusterConfig.PrivateCluster
    /\ clusterConfig.NAT = "HighlyAvailable"
    /\ Len(Zones) >= 2
    /\ DOMAIN PublicSubnets # {}
    /\ DeclaredPrivateSubnets # {}
    /\ PrivateRouteTables # {}

\* C3: Single NAT mode on the gatewayed create path, at least one zone: one
\* elastic address and one NAT gateway, the gateway in the public subnet named
\* after the first zone of the list, one private route table per zone, and
\* the one default route of every private route table goes to that gateway.
C3_SingleNAT ==
    (pc = "done" /\ Gatewayed /\ clusterConfig.NAT = "Single" /\ Len(Zones) >= 1) =>
        /\ Succeeded
        /\ OfType("EIP") = { <<"NATIP">> }
        /\ OfType("NatGateway") = { <<"NATGateway">> }
        /\ resources[<<"NATGateway">>].AllocationId
             = MakeFnGetAttString(<<"NATIP">>, "AllocationId")
        /\ resources[<<"NATGateway">>].SubnetId = MakeRef(Named("SubnetPublic", Zones[1]))
        /\ (Zones[1] \in DOMAIN PublicSubnets =>
              /\ Named("SubnetPublic", Zones[1]) \in DeclaredPublicSubnets
              /\ resources[Named("SubnetPublic", Zones[1])].AvailabilityZone
                   = NewString(Zones[1]))
        /\ PrivateRouteTables = { Named("PrivateRouteTable", z) : z \in ZoneSet }
        /\ Cardinality(PrivateRouteTables) = Cardinality(ZoneSet)
        /\ \A t \in PrivateRouteTables :
             /\ Cardinality(DefaultRoutes(t)) = 1
             /\ \A r \in DefaultRoutes(t) :
                  /\ resources[r].NatGatewayId = MakeRef(<<"NATGateway">>)
                  /\ resources[r].GatewayId = NilValue

C3_Witness ==
    /\ Succeeded /\ Gatewayed /\ clusterConfig.NAT = "Single"
    /\ Len(Zones) >= 2 /\ Zones[1] # Zones[2]
    /\ Zones[2] \in DOMAIN PublicSubnets /\ Zones[1] \in DOMAIN PublicSubnets
    /\ Cardinality(PrivateRouteTables) = 2

\* C4: HighlyAvailable NAT mode on the gatewayed create path, n distinct
\* zones: n elastic addresses and n NAT gateways, the gateway of a zone in the
\* public subnet named after that zone and on that zone's elastic address,
\* and the one default route of a zone's private route table goes to the
\* gateway of that zone.
C4_HighlyAvailableNAT ==
    (pc = "done" /\ Gatewayed /\ clusterConfig.NAT = "HighlyAvailable"
        /\ Cardinality(ZoneSet) = Len(Zones)) =>
        /\ Succeeded
        /\ OfType("EIP") = { Named("NATIP", z) : z \in ZoneSet }
        /\ Cardinality(OfType("EIP")) = Len(Zones)
        /\ OfType("NatGateway") = { Named("NATGateway", z) : z \in ZoneSet }
        /\ Cardinality(OfType("NatGateway")) = Len(Zones)
        /\ \A z \in ZoneSet :
             /\ resources[Named("NATGateway", z)].SubnetId = MakeRef(Named("SubnetPublic", z))
             /\ resources[Named("NATGateway", z)].AllocationId
                  = MakeFnGetAttString(Named("NATIP", z), "AllocationId")
             /\ (z \in DOMAIN PublicSubnets =>
                   /\ Named("SubnetPublic", z) \in DeclaredPublicSubnets
                   /\ resources[Named("SubnetPublic", z)].AvailabilityZone = NewString(z))
             /\ Named("PrivateRouteTable", z) \in PrivateRouteTables
             /\ Cardinality(DefaultRoutes(Named("PrivateRouteTable", z))) = 1
             /\ \A r \in DefaultRoutes(Named("PrivateRouteTable", z)) :
                  /\ resources[r].NatGatewayId = MakeRef(Named("NATGateway", z))
                  /\ resources[r].GatewayId = NilValue
        /\ Cardinality(PrivateRouteTables) = Len(Zones)

C4_Witness ==
    /\ Succeeded /\ Gatewayed /\ clusterConfig.NAT = "HighlyAvailable"
    /\ Len(Zones) >= 2 /\ Cardinality(ZoneSet) = Len(Zones)
    /\ ZoneSet \subseteq DOMAIN PublicSubnets
    /\ Cardinality(OfType("NatGateway")) >= 2

\* C7: an unrecognised NAT mode on the gatewayed create path: CreateTemplate
\* returns an error and neither reference nor SubnetDetails; no elastic
\* address, NAT gateway, private route table, private route or private subnet
\* is declared and no output is registered, and what was declared before the
\* check (VPC, gateway, attachment, public route table and route, public
\* subnets) is in the graph.
C7_UnrecognisedNATMode ==
    (pc # "ready" /\ Gatewayed
        /\ clusterConfig.NAT \notin { "HighlyAvailable", "Single", "Disable" }) =>
        /\ Returned
        /\ result.err = "not a valid NAT gateway mode"
        /\ result.vpcID = NilValue
        /\ result.subnetDetails = NoDetails
        /\ OfType("EIP") = {}
        /\ OfType("NatGateway") = {}
        /\ PrivateRouteTables = {}
        /\ { r \in OfType("Route") : resources[r].NatGatewayId # NilValue
                                      \/ Head(r) = "NATPrivateSubnetRoute" } = {}
        /\ DeclaredPrivateSubnets = {}
        /\ DOMAIN outputs = {}
        /\ Declared(<<"VPC">>, "VPC")
        /\ Declared(<<"InternetGateway">>, "InternetGateway")
        /\ Declared(<<"VPCGatewayAttachment">>, "VPCGatewayAttachment")
        /\ Declared(<<"PublicRouteTable">>, "RouteTable")
        /\ Declared(<<"PublicSubnetRoute">>, "Route")
        /\ \A k \in DOMAIN PublicSubnets : Named("SubnetPublic", k) \in DeclaredPublicSubnets

C7_Witness ==
    /\ Returned /\ Gatewayed /\ clusterConfig.NAT = "Bogus"
    /\ result.err # ""
    /\ Len(Zones) >= 1
    /\ DOMAIN PrivateSubnets # {}
    /\ Cardinality(DeclaredPublicSubnets) >= 2

\* The (route table, association) pairs of every response received.
ReceivedPairs ==
    UNION { UNION { { [rt |-> received[i].RouteTables[j].RouteTableId,
                       rta |-> received[i].RouteTables[j].Associations[k]]
                      : k \in DOMAIN received[i].RouteTables[j].Associations }
                    : j \in DOMAIN received[i].RouteTables }
            : i \in DOMAIN received }

\* The lookup ran and every call was answered without an error.
LookupAnswered ==
    /\ NeedsLookup(clusterConfig)
    /\ Returned
    /\ \A i \in DOMAIN received : ~received[i].err

TablesOf(id) == { a.rt : a \in { b \in ReceivedPairs : ~b.rta.Main /\ b.rta.SubnetId = id } }

ReturnedPrivate == result.subnetDetails.Private
ReturnedPublic == result.subnetDetails.Public

\* C2: fully-private import with private subnets, the lookup answered: the
\* build fails if an association received is flagged main; otherwise it fails
\* if a private subnet has no association on record; otherwise it succeeds
\* and the route table of every private SubnetResource is the identifier of a
\* table on record for that subnet.
C2_ImportReconciliation ==
    LookupAnswered =>
        IF \E a \in ReceivedPairs : a.rta.Main
        THEN /\ result.err = "subnets must be associated with a non-main route table"
             /\ result.vpcID = NilValue /\ result.subnetDetails = NoDetails
        ELSE IF \E k \in DOMAIN PrivateSubnets : TablesOf(PrivateSubnets[k].ID) = {}
        THEN /\ result.err = "failed to find an explicit route table"
             /\ result.vpcID = NilValue /\ result.subnetDetails = NoDetails
        ELSE /\ result.err = ""
             /\ Len(ReturnedPrivate) = Cardinality(DOMAIN PrivateSubnets)
             /\ \A k \in DOMAIN PrivateSubnets :
                  \E i \in DOMAIN ReturnedPrivate :
                      /\ ReturnedPrivate[i].Subnet = NewString(PrivateSubnets[k].ID)
                      /\ ReturnedPrivate[i].RouteTable.kind = "String"
                      /\ ReturnedPrivate[i].RouteTable.v \in TablesOf(PrivateSubnets[k].ID)

C2_Witness ==
    /\ LookupAnswered /\ result.err = ""
    /\ Cardinality(DOMAIN PrivateSubnets) >= 2
    /\ Len(received) >= 2
    /\ \E i, j \in DOMAIN ReturnedPrivate :
         ReturnedPrivate[i].RouteTable # ReturnedPrivate[j].RouteTable

\* C5: with secondary-block auto-allocation on, the indices selected by the
\* subnets of one build are pairwise distinct across public and private
\* subnets, for every zone list and every pair of subnet mappings (stated here
\* for the builds with at least one zone).
C5_DistinctIndices ==
    (Succeeded /\ OnCreatePath /\ clusterConfig.AutoAllocateIPv6 /\ Len(Zones) >= 1) =>
        \A n, m \in OfType("SubnetCidrBlock") :
            n # m => resources[n].Index # resources[m].Index

\* Both mappings hold one subnet per zone of the list, keyed by the zone name.
KeyedByZone ==
    /\ Len(Zones) >= 1
    /\ Cardinality(ZoneSet) = Len(Zones)
    /\ DOMAIN PrivateSubnets = ZoneSet
    /\ DOMAIN PublicSubnets = ZoneSet

\* C6: two builds of one configuration with auto-allocation on give every
\* subnet the same secondary-block index, whatever order each build
\* enumerates the subnet mappings in (stated here for the mappings keyed by
\* the zones of the list).
C6_SameIndexOnRebuild ==
    (builds >= 1 /\ Succeeded /\ clusterConfig.AutoAllocateIPv6 /\ KeyedByZone) =>
        CIDRv6Indices(resources) = earlier

SubnetsOf(returned) == { returned[i].Subnet : i \in DOMAIN returned }

\* C8: with a pre-existing VPC identifier no resource is ever declared,
\* whether reconciliation succeeds or fails and whatever the fully-private,
\* NAT and auto-allocation settings; what a successful build returns is the
\* given VPC identifier and, per subnet, the given subnet identifier.
C8_ImportDeclaresNothing ==
    ~OnCreatePath =>
        /\ DOMAIN resources = {}
        /\ vpcID = NewString(clusterConfig.ID)
        /\ (Returned /\ result.err # "" =>
              result.vpcID = NilValue /\ result.subnetDetails = NoDetails)
        /\ (Succeeded =>
              /\ result.vpcID = NewString(clusterConfig.ID)
              /\ Len(ReturnedPrivate) = Cardinality(DOMAIN PrivateSubnets)
              /\ SubnetsOf(ReturnedPrivate)
                   = { NewString(PrivateSubnets[k].ID) : k \in DOMAIN PrivateSubnets }
              /\ Len(ReturnedPublic) = Cardinality(DOMAIN PublicSubnets)
              /\ SubnetsOf(ReturnedPublic)
                   = { NewString(PublicSubnets[k].ID) : k \in DOMAIN PublicSubnets })

C8_Witness ==
    /\ Succeeded /\ ~OnCreatePath
    /\ clusterConfig.PrivateCluster /\ clusterConfig.AutoAllocateIPv6
    /\ clusterConfig.NAT = "HighlyAvailable"
    /\ Len(Zones) >= 1
    /\ Len(ReturnedPrivate) >= 1 /\ Len(ReturnedPublic) >= 2
    /\ received # <<>>

RECURSIVE RecordsOf(_)
\* The records of a sequence of responses, page after page.
RecordsOf(responses) ==
    IF responses = <<>> THEN <<>>
    ELSE Head(responses).RouteTables \o RecordsOf(Tail(responses))

RECURSIVE LastTable(_, _, _)
\* The table of the last association of subnet id among records[1..i].
LastTable(records, id, i) ==
    IF i = 0 THEN <<>>
    ELSE IF \E k \in DOMAIN records[i].Associations :
                records[i].Associations[k].SubnetId = id
         THEN records[i].RouteTableId
         ELSE LastTable(records, id, i - 1)

LastResponse == received[Len(received)]

\* What C9 says of every state of a lookup.
C9_OneCallAtATime ==
    /\ Len(calls) = Len(received)
    /\ (calls # <<>> => calls[1] = 0)
    /\ \A i \in 2..Len(calls) :
         /\ ~received[i - 1].err
         /\ received[i - 1].NextToken # 0
         /\ calls[i] = received[i - 1].NextToken
    /\ (pc = "describe" =>
          received = <<>> \/ (~LastResponse.err /\ LastResponse.NextToken # 0))
    /\ (pc = "done" =>
          /\ received # <<>>
          /\ LastResponse.err \/ LastResponse.NextToken = 0
          /\ (LastResponse.err =>
                /\ result = Failure("error describing route tables")
                /\ subnetDetails = NoDetails)
          /\ (~LastResponse.err =>
                /\ routeTables = RecordsOf(received)
                /\ (result.err = "" =>
                      \A i \in DOMAIN ReturnedPrivate :
                          \E k \in DOMAIN PrivateSubnets :
                              /\ ReturnedPrivate[i].Subnet = NewString(PrivateSubnets[k].ID)
                              /\ ReturnedPrivate[i].RouteTable
                                   = NewString(LastTable(RecordsOf(received),
                                                         PrivateSubnets[k].ID,
                                                         Len(RecordsOf(received)))))))

\* C9: the lookup issues its calls one at a time, the first without a token,
\* each later one with the token of the previous response; it stops at the
\* first response without a token and then builds the mapping from the
\* records of every page received; an error on a page ends it with an error,
\* no mapping and no further call; and the lookup does end.
C9_SequentialPagination == [](C9_OneCallAtATime) /\ <>(pc = "done")

C9_Witness ==
    /\ pc = "done" /\ result.err = ""
    /\ Len(calls) >= 2
    /\ \A i \in DOMAIN received : received[i].RouteTables # <<>>
    /\ Len(ReturnedPrivate) >= 2

\* One private subnet in every zone of a list of distinct zones, and the
\* public subnets keyed by the zones.
OnePrivateSubnetPerZone ==
    /\ Len(Zones) >= 1
    /\ Cardinality(ZoneSet) = Len(Zones)
    /\ Cardinality(DOMAIN PrivateSubnets) = Len(Zones)
    /\ { PrivateSubnets[k].AZ : k \in DOMAIN PrivateSubnets } = ZoneSet
    /\ DOMAIN PublicSubnets = ZoneSet

\* C10: after a successful create-path build every route-table association
\* names a subnet and a route table that are declared in the graph, and
\* every declared private subnet is the subject of exactly one association,
\* also when the keys of the private mapping are not the zone names (stated
\* here for the mappings with one private subnet in every zone and the public
\* subnets keyed by zone).
C10_AssociationsResolve ==
    (Succeeded /\ OnCreatePath /\ OnePrivateSubnetPerZone) =>
        /\ \A a \in OfType("SubnetRouteTableAssociation") :
             /\ resources[a].SubnetId.kind = "Ref"
             /\ Declared(resources[a].SubnetId.v, "Subnet")
             /\ resources[a].RouteTableId.kind = "Ref"
             /\ Declared(resources[a].RouteTableId.v, "RouteTable")
        /\ \A n \in DeclaredPrivateSubnets :
             Cardinality({ a \in OfType("SubnetRouteTableAssociation") :
                             resources[a].SubnetId = MakeRef(n) }) = 1

====
